---- MODULE Spec2Model ----
(***************************************************************************)
(* Substack2Markdown: URL discovery, the per-URL scrape loop, artifact     *)
(* persistence and the per-site JSON index (src/substack_scraper.py).      *)
(*                                                                         *)
(* Text is modelled as a sequence of one-character strings, so that        *)
(* substring tests and str.split("/") are computed, not assumed.           *)
(***************************************************************************)
EXTENDS Integers, Sequences, FiniteSets, TLC

\* ------------------------------------------------------------------ bounds

\* longest URL list a discovery source serves in the scrape model
MaxUrls == 2
\* largest post-count cap given to scrape_posts (0 = unlimited)
MaxCap == 2
\* number of scraper runs (constructions or re-runs) in one behaviour
MaxRuns == 2
\* scraper threads of the GUI that run besides the one followed in detail
MaxExtraThreads == 1
\* longest URL list and keyword list given to filter_urls in SpecFilter
MaxFilterUrls == 2
MaxKeywords == 2
\* longest sitemap / feed content in SpecDiscovery
MaxSourceLen == 2
\* most heading elements of a page in SpecExtract
MaxHeadings == 2

\* ------------------------------------------------------------------ text

\* Python's `k in u` for strings: k occurs in u as a contiguous substring.
IsSubstring(k, u) ==
    \E s \in 0..(Len(u) - Len(k)) : SubSeq(u, s + 1, s + Len(k)) = k

\* all sequences over S of length at most n
RECURSIVE SeqsUpTo(_, _)
SeqsUpTo(S, n) ==
    IF n = 0 THEN {<<>>}
    ELSE LET shorter == SeqsUpTo(S, n - 1)
         IN  shorter \cup {Append(q, x) : q \in shorter, x \in S}

\* ------------------------------------------------------- URL filtering

\* faulty variant: a URL is kept as soon as one keyword is absent from it
filter_urls_any(urls, keywords) ==
    SelectSeq(urls, LAMBDA url :
        \E j \in 1..Len(keywords) : ~IsSubstring(keywords[j], url))

\* BaseSubstackScraper.filter_urls
filter_urls(urls, keywords) ==
    SelectSeq(urls, LAMBDA url :
        \A j \in 1..Len(keywords) : ~IsSubstring(keywords[j], url))

\* self.keywords
keywords ==
    << <<"a","b","o","u","t">>,
       <<"a","r","c","h","i","v","e">>,
       <<"p","o","d","c","a","s","t">> >>

\* ------------------------------------------------------- URL discovery

\* What a discovery source answers to requests.get: the request raises
\* (connection failure), the response has a non-OK status, the response is
\* OK but its content is not well-formed XML, or the response is OK and its
\* document lists `urls` (a feed item whose <link> is missing or empty is
\* listed as the empty text).
RespRaises == [kind |-> "raises", urls |-> <<>>]
RespNotOk == [kind |-> "not_ok", urls |-> <<>>]
RespUnparseable == [kind |-> "unparseable", urls |-> <<>>]
RespOk(urls) == [kind |-> "ok", urls |-> urls]

\* result of a call: exc = an exception left the call
Returned(v) == [exc |-> FALSE, val |-> v]
Raised == [exc |-> TRUE, val |-> <<>>]

\* ET.fromstring(response.content) raises ParseError
ParseFails(resp) == resp.kind = "unparseable"

\* BaseSubstackScraper.fetch_urls_from_sitemap
fetch_urls_from_sitemap(resp) ==
    IF resp.kind = "raises" THEN Raised
    ELSE IF resp.kind = "not_ok" THEN Returned(<<>>)
    ELSE IF ParseFails(resp) THEN Raised
    ELSE Returned(resp.urls)

\* BaseSubstackScraper.fetch_urls_from_feed
fetch_urls_from_feed(resp) ==
    IF resp.kind = "raises" THEN Raised
    ELSE IF resp.kind = "not_ok" THEN Returned(<<>>)
    ELSE IF ParseFails(resp) THEN Raised
    ELSE Returned(SelectSeq(resp.urls, LAMBDA t : t # <<>>))

\* get_all_post_urls: `if not urls`
FeedNeeded(resp, urls) == urls = <<>>

\* BaseSubstackScraper.get_all_post_urls; feed = the feed was requested
get_all_post_urls(sm, fd) ==
    LET s == fetch_urls_from_sitemap(sm)
    IN  IF s.exc THEN [exc |-> TRUE, val |-> <<>>, feed |-> FALSE]
        ELSE IF FeedNeeded(sm, s.val)
             THEN LET f == fetch_urls_from_feed(fd)
                  IN  IF f.exc THEN [exc |-> TRUE, val |-> <<>>, feed |-> TRUE]
                      ELSE [exc |-> FALSE, val |-> filter_urls(f.val, keywords),
                            feed |-> TRUE]
             ELSE [exc |-> FALSE, val |-> filter_urls(s.val, keywords),
                   feed |-> FALSE]

\* ------------------------------------------------------------ the site

\* post URLs of the modelled site (the text after the host)
UA == <<"p","/","a">>
UB == <<"p","/","b">>
\* a non-article page that the sitemap also lists
UAbout == <<"a","b","o","u","t">>
SiteUrls == {UA, UB, UAbout}
PostUrls == {UA, UB}

\* what a discovery source of the site can answer
SourceResponses ==
    {RespRaises, RespNotOk, RespUnparseable} \cup {RespOk(q) : q \in SeqsUpTo(SiteUrls, MaxUrls)}

\* The feed's answer matters only when the feed is requested; when it is
\* not, one answer stands for all.
FeedResponsesFor(sm) ==
    IF get_all_post_urls(sm, RespNotOk).feed THEN SourceResponses
    ELSE {RespNotOk}

\* like counts the site's post pages show; they change between runs
Likes == {"0", "7"}
\* the like count of a site whose pages do not change
SteadyLikes == {"0"}

\* BASE_MD_DIR, BASE_HTML_DIR
BASE_MD_DIR == "substack_md_files"
BASE_HTML_DIR == "substack_html_pages"
\* --directory values: the default only, or the default and another one
DefaultMdDirs == {BASE_MD_DIR}
MdDirs == {BASE_MD_DIR, "other_md"}
HtmlDir == BASE_HTML_DIR

\* file extensions
MdExt == <<".","m","d">>
HtmlExt == <<".","h","t","m","l">>

\* --------------------------------------------------------------- state

VARIABLES
    pc,                \* where the current run is
    runs,              \* runs started so far
    mode,              \* "bulk" (scrape_posts) or "single" (scrape_single_post)
    md_save_dir,       \* self.md_save_dir
    post_urls,         \* self.post_urls
    num_posts_to_scrape,
    likes,             \* like count the site's pages show during this run
    i,                 \* position of the for loop in post_urls
    count,             \* scrape_posts' count
    essays_data,       \* scrape_posts' essays_data
    log,               \* what happened at each visited position of this run
    oracle,            \* fetch outcomes fixed for a re-run of the same site
    rerun,             \* this run repeats the previous one, same site state
    raised,            \* an exception left the constructor or the scrape call
    files,             \* the saved artifacts: path -> content
    json,              \* data/<writer_name>.json: [exists, data]
    author_html,       \* the browsable index page: [exists, data]
    files0,            \* files when the current run started
    json0,             \* json when the current run started
    arg,               \* the inputs of a call checked on its own
    ret,               \* the result of that call
    driver,            \* self.driver: "none", or "live" once Chrome runs
    scraping,          \* SubstackScraperGUI.scraping
    start_button,      \* state of the GUI's Start button
    stop_button,       \* state of the GUI's Stop button
    stop_at,           \* first loop position begun after Stop, 0 = no Stop
    extra              \* scraper threads running besides the one followed

vars == <<pc, runs, mode, md_save_dir, post_urls, num_posts_to_scrape, likes,
          i, count, essays_data, log, oracle, rerun, raised, files, json,
          author_html, files0, json0, arg, ret, driver, scraping,
          start_button, stop_button, stop_at, extra>>

\* the GUI's own state
guivars == <<scraping, start_button, stop_button, stop_at, extra>>

\* ------------------------------------------------------- persistence

\* index of the last "/" of url, 0 when there is none
LastSlash(url) ==
    LET at == {k \in 1..Len(url) : url[k] = "/"}
    IN  IF at = {} THEN 0 ELSE CHOOSE k \in at : \A m \in at : m <= k

\* BaseSubstackScraper.get_filename_from_url
get_filename_from_url(url, filetype) ==
    LET ft == IF Len(filetype) > 0 /\ filetype[1] = "." THEN filetype
              ELSE <<".">> \o filetype
    IN  SubSeq(url, LastSlash(url) + 1, Len(url)) \o ft

\* os.path.join(save_dir, filename)
PathJoin(dir, filename) == <<dir, filename>>

\* os.path.exists
PathExists(fs, path) == path \in DOMAIN fs

\* open(path, 'w').write(content)
WriteFile(fs, path, content) ==
    [p \in DOMAIN fs \cup {path} |-> IF p = path THEN content ELSE fs[p]]

\* BaseSubstackScraper.save_to_file
save_to_file(fs, filepath, content) ==
    IF PathExists(fs, filepath) THEN fs ELSE WriteFile(fs, filepath, content)

\* BaseSubstackScraper.md_to_html
md_to_html(md_content) == [rendered |-> md_content]

\* BaseSubstackScraper.save_to_html_file
save_to_html_file(fs, filepath, content) ==
    WriteFile(fs, filepath, [shell |-> "essay-styles.css", main |-> content])

\* faulty variant: the batch is appended without looking at the file
save_essays_data_to_json_nomerge(js, data) ==
    [exists |-> TRUE, data |-> data]

\* BaseSubstackScraper.save_essays_data_to_json
save_essays_data_to_json(js, data) ==
    IF js.exists
    THEN [exists |-> TRUE,
          data |-> js.data \o SelectSeq(data, LAMBDA d :
                       \A k \in 1..Len(js.data) : js.data[k] # d)]
    ELSE [exists |-> TRUE, data |-> data]

\* os.path.relpath(path, base) for a path <<directory, filename>>
RelPath(path, base) ==
    IF path[1] = base THEN Tail(path) ELSE <<"..">> \o path

\* generate_html_file: the page embeds the records of the index file, their
\* links rewritten relative to the page's directory, BASE_HTML_DIR
generate_html_file(js) ==
    [exists |-> TRUE,
     data |-> [k \in 1..Len(js.data) |->
                 [js.data[k] EXCEPT
                     !.file_link = RelPath(@, BASE_HTML_DIR),
                     !.html_link = RelPath(@, BASE_HTML_DIR)]]]

\* ---------------------------------------------------------- extraction

\* str.strip(), for texts whose only whitespace is the blank
RECURSIVE LStrip(_)
LStrip(t) == IF t # <<>> /\ t[1] = " " THEN LStrip(Tail(t)) ELSE t
RECURSIVE RStrip(_)
RStrip(t) ==
    IF t # <<>> /\ t[Len(t)] = " " THEN RStrip(SubSeq(t, 1, Len(t) - 1))
    ELSE t
Strip(t) == LStrip(RStrip(t))

Digits == <<"0", "1", "2", "3", "4", "5", "6", "7", "8", "9">>
IsDigit(c) == \E k \in 1..10 : Digits[k] = c
DigitValue(c) == (CHOOSE k \in 1..10 : Digits[k] = c) - 1

\* str.isdigit
IsDigitText(t) == t # <<>> /\ \A k \in 1..Len(t) : IsDigit(t[k])

\* int(t) for a text of digits
RECURSIVE ToNat(_)
ToNat(t) ==
    IF t = <<>> THEN 0
    ELSE 10 * ToNat(SubSeq(t, 1, Len(t) - 1)) + DigitValue(t[Len(t)])

\* n in decimal, zero-padded to w digits
RECURSIVE Pad(_, _)
Pad(n, w) ==
    IF w = 0 THEN <<>> ELSE Pad(n \div 10, w - 1) \o <<Digits[(n % 10) + 1]>>

\* date_str.replace("Z", "+00:00")
RECURSIVE ReplaceZ(_)
ReplaceZ(t) ==
    IF t = <<>> THEN <<>>
    ELSE (IF t[1] = "Z" THEN <<"+", "0", "0", ":", "0", "0">> ELSE <<t[1]>>)
             \o ReplaceZ(Tail(t))

DaysIn(y, m) ==
    IF m = 2
    THEN (IF y % 4 = 0 /\ (y % 100 # 0 \/ y % 400 = 0) THEN 29 ELSE 28)
    ELSE IF m \in {4, 6, 9, 11} THEN 30 ELSE 31

\* hh:mm:ss at positions k..k+7 of t
IsClock(t, k) ==
    /\ \A j \in {k, k + 1, k + 3, k + 4, k + 6, k + 7} : IsDigit(t[j])
    /\ t[k + 2] = ":" /\ t[k + 5] = ":"
    /\ ToNat(SubSeq(t, k, k + 1)) < 24
    /\ ToNat(SubSeq(t, k + 3, k + 4)) < 60
    /\ ToNat(SubSeq(t, k + 6, k + 7)) < 60

\* +hh:mm or -hh:mm at positions k..k+5 of t
IsOffset(t, k) ==
    /\ t[k] \in {"+", "-"}
    /\ \A j \in {k + 1, k + 2, k + 4, k + 5} : IsDigit(t[j])
    /\ t[k + 3] = ":"
    /\ ToNat(SubSeq(t, k + 1, k + 2)) < 24
    /\ ToNat(SubSeq(t, k + 4, k + 5)) < 60

\* datetime.fromisoformat for texts of the shapes YYYY-MM-DD,
\* YYYY-MM-DDThh:mm:ss and YYYY-MM-DDThh:mm:ss+hh:mm; ok = no ValueError
fromisoformat(t) ==
    LET shaped ==
            /\ Len(t) \in {10, 19, 25}
            /\ \A j \in {1, 2, 3, 4, 6, 7, 9, 10} : IsDigit(t[j])
            /\ t[5] = "-" /\ t[8] = "-"
            /\ Len(t) >= 19 => (t[11] = "T" /\ IsClock(t, 12))
            /\ Len(t) = 25 => IsOffset(t, 20)
        y == ToNat(SubSeq(t, 1, 4))
        m == ToNat(SubSeq(t, 6, 7))
        d == ToNat(SubSeq(t, 9, 10))
    IN  IF shaped /\ y >= 1 /\ m \in 1..12 /\ d \in 1..DaysIn(y, m)
        THEN [ok |-> TRUE, year |-> y, month |-> m, day |-> d]
        ELSE [ok |-> FALSE, year |-> 0, month |-> 0, day |-> 0]

\* %b
MonthAbbr ==
    << <<"J","a","n">>, <<"F","e","b">>, <<"M","a","r">>, <<"A","p","r">>,
       <<"M","a","y">>, <<"J","u","n">>, <<"J","u","l">>, <<"A","u","g">>,
       <<"S","e","p">>, <<"O","c","t">>, <<"N","o","v">>, <<"D","e","c">> >>

\* date_obj.strftime("%b %d, %Y")
strftime(date_obj) ==
    MonthAbbr[date_obj.month] \o <<" ">> \o Pad(date_obj.day, 2)
        \o <<",", " ">> \o Pad(date_obj.year, 4)

\* An element select_one may find: absent, or present with its text
NoElement == [present |-> FALSE, text |-> <<>>]
Element(t) == [present |-> TRUE, text |-> t]

\* The content of the page's first application/ld+json script, as
\* json.loads sees it: not valid JSON, or a JSON value of some type.
\* has_key: "datePublished" in metadata is true (a key of the object, an
\* item of the array, a part of the string); date: the value under the key
\* of an object.
JsonInvalid ==
    [valid |-> FALSE, type |-> "none", has_key |-> FALSE,
     date |-> [type |-> "none", text |-> <<>>]]
JsonValue(type, has_key) ==
    [valid |-> TRUE, type |-> type, has_key |-> has_key,
     date |-> [type |-> "none", text |-> <<>>]]
JsonObjectWithDate(dtype, dtext) ==
    [valid |-> TRUE, type |-> "object", has_key |-> TRUE,
     date |-> [type |-> dtype, text |-> dtext]]

\* soup.find("script", {"type": "application/ld+json"}): no such tag, a
\* tag whose .string is None or empty, or a tag with content
NoScript == [tag |-> FALSE, string |-> FALSE, json |-> JsonInvalid]
EmptyScript == [tag |-> TRUE, string |-> FALSE, json |-> JsonInvalid]
Script(doc) == [tag |-> TRUE, string |-> TRUE, json |-> doc]

\* a parsed page: its heading elements in document order and the elements
\* the selectors of extract_post_data look for
Page(headings, subtitle, date_element, ld, like, content) ==
    [headings |-> headings, subtitle |-> subtitle,
     date_element |-> date_element, ld |-> ld, like |-> like,
     content |-> content]

\* soup.select_one with a selector group: the first element, in document
\* order, that matches any selector of the group
select_one(elements, selectors) ==
    LET hits == {k \in 1..Len(elements) : elements[k].sel \in selectors}
    IN  IF hits = {} THEN NoElement
        ELSE Element(elements[CHOOSE k \in hits : \A m \in hits : k <= m].text)

\* extract_post_data, the JSON-LD fallback: exc = an exception that the
\* except clause (JSONDecodeError, ValueError, KeyError) does not catch
\* leaves the try block; date = the date found, empty when none
LdDate(ld) ==
    LET found(t) == [exc |-> FALSE, date |-> t]
        uncaught == [exc |-> TRUE, date |-> <<>>]
        doc == ld.json
    IN  IF ~(ld.tag /\ ld.string) THEN found(<<>>)
        ELSE IF ~doc.valid THEN found(<<>>)
        ELSE IF doc.type \in {"number", "null"} THEN uncaught
        ELSE IF ~doc.has_key THEN found(<<>>)
        ELSE IF doc.type # "object" THEN uncaught
        ELSE IF doc.date.type # "string" THEN uncaught
        ELSE LET date_obj == fromisoformat(ReplaceZ(doc.date.text))
             IN  IF date_obj.ok THEN found(strftime(date_obj))
                 ELSE found(<<>>)

\* BaseSubstackScraper.html_to_md
html_to_md(content_html) == [markdown_of |-> content_html]

\* BaseSubstackScraper.combine_metadata_and_content
combine_metadata_and_content(title, subtitle, date, like_count, content) ==
    [title |-> title, subtitle |-> subtitle, date |-> date,
     like_count |-> like_count, body |-> content]

DateNotFound ==
    <<"D","a","t","e"," ","n","o","t"," ","f","o","u","n","d">>
Untitled == <<"U","n","t","i","t","l","e","d">>

\* BaseSubstackScraper.extract_post_data; exc = the call raises
extract_post_data(soup) ==
    LET title_element == select_one(soup.headings, {"h1.post-title", "h2"})
        title == IF title_element.present THEN Strip(title_element.text)
                 ELSE Untitled
        subtitle == IF soup.subtitle.present THEN Strip(soup.subtitle.text)
                    ELSE <<>>
        date1 == IF soup.date_element.present
                    /\ Strip(soup.date_element.text) # <<>>
                 THEN Strip(soup.date_element.text) ELSE <<>>
        ld == IF date1 = <<>> THEN LdDate(soup.ld)
              ELSE [exc |-> FALSE, date |-> date1]
        date == IF ld.date = <<>> THEN DateNotFound ELSE ld.date
        like_count == IF soup.like.present /\ IsDigitText(Strip(soup.like.text))
                      THEN Strip(soup.like.text) ELSE <<"0">>
        md == html_to_md(soup.content)
    IN  IF ld.exc
        THEN [exc |-> TRUE, title |-> <<>>, subtitle |-> <<>>,
              like_count |-> <<>>, date |-> <<>>,
              md |-> combine_metadata_and_content(<<>>, <<>>, <<>>, <<>>, md)]
        ELSE [exc |-> FALSE, title |-> title, subtitle |-> subtitle,
              like_count |-> like_count, date |-> date,
              md |-> combine_metadata_and_content(title, subtitle, date,
                                                  like_count, md)]

\* the page a URL of the modelled site serves while it shows like count lk
Soup(url, lk) ==
    Page(<<[sel |-> "h1.post-title", text |-> url]>>, NoElement,
         Element(<<"J","a","n"," ","0","1",","," ","2","0","2","4">>),
         NoScript, Element(<<lk>>), url)

\* ------------------------------------------------------ one URL's work

\* What the outside world does to one URL's processing: the page is fetched
\* and everything succeeds; the anonymous fetch meets the paywall marker
\* (get_url_soup returns None); get_url_soup raises; extract_post_data (or
\* the write of the .md file) raises; md_to_html or the write of the .html
\* file raises after the .md file was written.
Outcomes == {"ok", "paywall", "fetch_error", "extract_error", "html_error"}
Errors == {"fetch_error", "extract_error", "html_error"}

\* faulty variant: the URL is fetched even though its .md file exists
AlreadySaved_never(fs, md_filepath) == FALSE

\* scrape_posts / scrape_single_post: os.path.exists(md_filepath)
AlreadySaved(fs, md_filepath) == PathExists(fs, md_filepath)

\* The body of the try block for one URL, under outcome o, post being
\* what extract_post_data returns for the URL's page.
\* what = "exists" when the URL was skipped because its .md file exists,
\* else the outcome; records = the records appended to essays_data.
ScrapePost(fs, md_filepath, html_filepath, post, o) ==
    LET fs1 == save_to_file(fs, md_filepath, post.md)
        fs2 == save_to_html_file(fs1, html_filepath, md_to_html(post.md))
        rec == [title |-> post.title, subtitle |-> post.subtitle,
                like_count |-> post.like_count, date |-> post.date,
                file_link |-> md_filepath, html_link |-> html_filepath]
    IN  IF AlreadySaved(fs, md_filepath)
        THEN [files |-> fs, records |-> <<>>, what |-> "exists"]
        ELSE IF o \in {"paywall", "fetch_error", "extract_error"}
        THEN [files |-> fs, records |-> <<>>, what |-> o]
        ELSE IF o = "html_error"
        THEN [files |-> fs1, records |-> <<>>, what |-> o]
        ELSE [files |-> fs2, records |-> <<rec>>, what |-> o]

\* one URL's work in scrape_posts / scrape_single_post
ScrapeUrl(fs, dir, url, lk, o) ==
    ScrapePost(fs, PathJoin(dir, get_filename_from_url(url, MdExt)),
               PathJoin(HtmlDir, get_filename_from_url(url, HtmlExt)),
               extract_post_data(Soup(url, lk)), o)

\* faulty variant: count += 1 sits at the end of the fetch branch, inside the try
CountAfter_in_try(c, what) == IF what = "ok" THEN c + 1 ELSE c

\* scrape_posts: `continue` on a None soup skips count += 1; every other
\* iteration (saved, skipped as existing, failed) reaches it
CountAfter(c, what) == IF what = "paywall" THEN c ELSE c + 1

\* faulty variant: a None soup ends the loop (`break` for `continue`)
BreakNow_on_skip(n, c, what) == what = "paywall" \/ (n # 0 /\ c = n)

\* faulty variant: the loop stops one post late
BreakNow_late(n, c, what) == what # "paywall" /\ n # 0 /\ c = n + 1

\* scrape_posts: `if num_posts_to_scrape != 0 and count == num_posts_to_scrape`
\* (not reached after `continue`)
BreakNow(n, c, what) == what # "paywall" /\ n # 0 /\ c = n

\* faulty variant: only the fetch's ValueError is caught
Caught_value_error(what) == what = "fetch_error"

\* scrape_posts: `except Exception` around one URL's work
Caught(what) == what \in Errors

\* --------------------------------------------------------------- runs

NoJson == [exists |-> FALSE, data |-> <<>>]
NoFiles == <<>>
NoArg == [none |-> TRUE]

\* SubstackScraperGUI.__init__: not scraping, Start enabled, Stop disabled
NoGui ==
    /\ scraping = FALSE /\ start_button = "normal"
    /\ stop_button = "disabled" /\ stop_at = 0 /\ extra = 0

Init ==
    /\ pc = "idle" /\ runs = 0 /\ mode = "none" /\ md_save_dir = BASE_MD_DIR
    /\ post_urls = <<>> /\ num_posts_to_scrape = 0 /\ likes = "0"
    /\ i = 1 /\ count = 0 /\ essays_data = <<>> /\ log = <<>>
    /\ oracle = <<>> /\ rerun = FALSE /\ raised = FALSE
    /\ files = NoFiles /\ json = NoJson /\ author_html = NoJson
    /\ files0 = NoFiles /\ json0 = NoJson
    /\ arg = NoArg /\ ret = NoArg
    /\ driver = "none" /\ NoGui

Between == pc \in {"idle", "done", "crashed"}

\* fresh loop state of a run over urls
StartRunWith(m, dir, urls, p, drv) ==
    /\ runs' = runs + 1
    /\ driver' = drv
    /\ mode' = m /\ md_save_dir' = dir /\ post_urls' = urls
    /\ num_posts_to_scrape' = 0 /\ likes' = "0"
    /\ i' = 1 /\ count' = 0 /\ essays_data' = <<>> /\ log' = <<>>
    /\ oracle' = <<>> /\ rerun' = FALSE
    /\ pc' = p /\ raised' = (p = "crashed")
    /\ files0' = files /\ json0' = json
    /\ UNCHANGED <<files, json, author_html, guivars>>

\* the same for a constructor call that keeps no session state
StartRun(m, dir, urls, p, drv) ==
    StartRunWith(m, dir, urls, p, drv) /\ arg' = NoArg /\ UNCHANGED ret

\* BaseSubstackScraper.__init__ without skip_url_fetch: Discovery runs
Construct(dirs) ==
    /\ Between /\ runs < MaxRuns
    /\ \E dir \in dirs, sm \in SourceResponses :
       \E fd \in FeedResponsesFor(sm) :
         LET r == get_all_post_urls(sm, fd)
         IN  IF r.exc THEN StartRun("bulk", dir, <<>>, "crashed", "none")
             ELSE StartRun("bulk", dir, r.val, "ready", "none")

\* BaseSubstackScraper.__init__ with skip_url_fetch (single-post mode)
ConstructSingle(dirs) ==
    /\ Between /\ runs < MaxRuns
    /\ \E dir \in dirs : StartRun("single", dir, <<>>, "ready", "none")

\* the state of a browser session
Session(s) == [session |-> s]

\* How PremiumSubstackScraper.__init__ goes on after the base constructor:
\* webdriver.Chrome raises (no session), login raises (the browser runs),
\* or login ends authenticated.
SessionStarts == {"chrome_fails", "login_fails", "authenticated"}

\* the session state each of them leaves
SessionAfter(st) ==
    IF st = "chrome_fails" THEN "Anonymous"
    ELSE IF st = "login_fails" THEN "Failed"
    ELSE "Authenticated"

\* faulty variant: the constructor swallows the exception of login
AfterLogin_swallowed(st) == "ready"

\* __init__ ends with self.login(), outside any try: an exception of login
\* leaves the constructor
AfterLogin(st) == IF st = "login_fails" THEN "crashed" ELSE "ready"

\* the run a PremiumSubstackScraper constructor call starts, the working
\* set being urls
StartPremiumRun(m, dir, urls, st) ==
    /\ IF st = "chrome_fails"
       THEN StartRunWith(m, dir, <<>>, "crashed", "none")
       ELSE IF AfterLogin(st) = "crashed"
       THEN StartRunWith(m, dir, <<>>, "crashed", "live")
       ELSE StartRunWith(m, dir, urls, "ready", "live")
    /\ ret' = Session(SessionAfter(st))
    /\ arg' = NoArg

\* PremiumSubstackScraper.__init__ without skip_url_fetch
ConstructPremium(dirs) ==
    /\ Between /\ runs < MaxRuns
    /\ \E dir \in dirs, sm \in SourceResponses, st \in SessionStarts :
       \E fd \in FeedResponsesFor(sm) :
         LET r == get_all_post_urls(sm, fd)
         IN  IF r.exc
             THEN /\ StartRunWith("bulk", dir, <<>>, "crashed", "none")
                  /\ ret' = Session("Anonymous")
                  /\ arg' = NoArg
             ELSE StartPremiumRun("bulk", dir, r.val, st)

\* PremiumSubstackScraper.__init__ with skip_url_fetch (single-post mode)
ConstructSinglePremium(dirs) ==
    /\ Between /\ runs < MaxRuns
    /\ \E dir \in dirs, st \in SessionStarts :
         StartPremiumRun("single", dir, <<>>, st)

\* scrape_posts up to the for loop
BeginScrapePosts(lks) ==
    /\ pc = "ready" /\ mode = "bulk"
    /\ \E n \in 0..MaxCap, lk \in lks :
         /\ num_posts_to_scrape' = n /\ likes' = lk
    /\ pc' = IF post_urls = <<>> THEN "merge" ELSE "loop"
    /\ UNCHANGED <<runs, mode, md_save_dir, post_urls, i, count, essays_data,
                   log, oracle, rerun, raised, files, json, author_html,
                   files0, json0, arg, ret, driver,
                   guivars>>

\* Outcomes under the scraper in use: only the anonymous get_url_soup
\* returns None; the authenticated one returns a page or raises.
OutcomesOf(drv) == IF drv = "none" THEN Outcomes ELSE Outcomes \ {"paywall"}

\* outcomes the site can give position k in this run
OutcomesAt(k) ==
    IF k <= Len(oracle) /\ oracle[k] # "unknown" THEN {oracle[k]}
    ELSE OutcomesOf(driver)

\* one iteration of scrape_posts' for loop
ProcessUrl ==
    /\ pc = "loop"
    /\ \E o \in OutcomesAt(i) :
       \E r \in {ScrapeUrl(files, md_save_dir, post_urls[i], likes, o)} :
         LET c == CountAfter(count, r.what)
         IN  /\ files' = r.files
             /\ log' = Append(log, r.what)
             /\ IF r.what \in Errors /\ ~Caught(r.what)
                THEN /\ pc' = "crashed" /\ raised' = TRUE
                     /\ UNCHANGED <<essays_data, count, i>>
                ELSE /\ essays_data' = essays_data \o r.records
                     /\ count' = c
                     /\ i' = i + 1
                     /\ raised' = raised
                     /\ pc' = IF BreakNow(num_posts_to_scrape, c, r.what)
                                 \/ i + 1 > Len(post_urls)
                              THEN "merge" ELSE "loop"
    /\ UNCHANGED <<runs, mode, md_save_dir, post_urls, num_posts_to_scrape,
                   likes, oracle, rerun, json, author_html, files0, json0,
                   arg, ret, driver,
                   guivars>>

\* faulty variant: the batch is dropped, the index file is not written
MergeIndex_skipped ==
    /\ pc = "merge"
    /\ pc' = "gen"
    /\ UNCHANGED <<runs, mode, md_save_dir, post_urls, num_posts_to_scrape,
                   likes, i, count, essays_data, log, oracle, rerun, raised,
                   files, json, author_html, files0, json0, arg, ret, driver,
                   guivars>>

\* scrape_posts after the loop: the batch merge
MergeIndex ==
    /\ pc = "merge"
    /\ json' = save_essays_data_to_json(json, essays_data)
    /\ pc' = "gen"
    /\ UNCHANGED <<runs, mode, md_save_dir, post_urls, num_posts_to_scrape,
                   likes, i, count, essays_data, log, oracle, rerun, raised,
                   files, author_html, files0, json0, arg, ret, driver,
                   guivars>>

\* scrape_posts' last statement
GenerateHtml ==
    /\ pc = "gen"
    /\ author_html' = generate_html_file(json)
    /\ pc' = "done"
    /\ UNCHANGED <<runs, mode, md_save_dir, post_urls, num_posts_to_scrape,
                   likes, i, count, essays_data, log, oracle, rerun, raised,
                   files, json, files0, json0, arg, ret, driver,
                   guivars>>

\* BaseSubstackScraper.scrape_single_post(url), the whole call; arg keeps
\* the URL it was given, self.post_urls is not touched
ScrapeSinglePost(lks) ==
    /\ pc = "ready" /\ mode = "single"
    /\ \E url \in PostUrls, lk \in lks, o \in OutcomesOf(driver) :
       \E r \in {ScrapeUrl(files, md_save_dir, url, lk, o)} :
             /\ files' = r.files
             /\ likes' = lk
             /\ arg' = [url |-> url]
             /\ log' = <<r.what>>
             /\ essays_data' = r.records
             /\ raised' = (r.what \in Errors)
             /\ json' = IF r.what = "ok"
                        THEN save_essays_data_to_json(json, r.records)
                        ELSE json
    /\ pc' = "done"
    /\ UNCHANGED <<runs, mode, md_save_dir, post_urls, num_posts_to_scrape,
                   i, count, oracle, rerun, author_html, files0, json0, ret,
                   driver, guivars>>

\* the fetch outcomes of the finished run, kept for its repetition
OracleAfter ==
    [k \in 1..Len(post_urls) |->
        IF k <= Len(log) /\ log[k] # "exists" THEN log[k]
        ELSE IF k <= Len(oracle) THEN oracle[k] ELSE "unknown"]

\* The same full-site scrape again, right after the first: the same
\* discovered list, cap and directories, and the site answers every fetch
\* as it did before.
RerunSameSite ==
    /\ pc = "done" /\ mode = "bulk" /\ runs < MaxRuns
    /\ runs' = runs + 1
    /\ oracle' = OracleAfter
    /\ rerun' = TRUE
    /\ i' = 1 /\ count' = 0 /\ essays_data' = <<>> /\ log' = <<>>
    /\ files0' = files /\ json0' = json
    /\ pc' = IF post_urls = <<>> THEN "merge" ELSE "loop"
    /\ UNCHANGED <<mode, md_save_dir, post_urls, num_posts_to_scrape, likes,
                   raised, files, json, author_html, arg, ret, driver,
                   guivars>>

\* Sequential runs for one site, one --directory, pages that do not change
Next ==
    \/ Construct(DefaultMdDirs)
    \/ ConstructSingle(DefaultMdDirs)
    \/ BeginScrapePosts(SteadyLikes)
    \/ ProcessUrl
    \/ MergeIndex
    \/ GenerateHtml
    \/ ScrapeSinglePost(SteadyLikes)
    \/ RerunSameSite

Spec == Init /\ [][Next]_vars

\* The same, where the user may pass another --directory to a later run and
\* the pages' like counts change between runs
NextDirs ==
    \/ Construct(MdDirs)
    \/ ConstructSingle(MdDirs)
    \/ BeginScrapePosts(Likes)
    \/ ProcessUrl
    \/ MergeIndex
    \/ GenerateHtml
    \/ ScrapeSinglePost(Likes)
    \/ RerunSameSite

SpecDirs == Init /\ [][NextDirs]_vars

\* Sequential runs of the authenticated scraper (--premium)
NextPremium ==
    \/ ConstructPremium(DefaultMdDirs)
    \/ ConstructSinglePremium(DefaultMdDirs)
    \/ BeginScrapePosts(SteadyLikes)
    \/ ProcessUrl
    \/ MergeIndex
    \/ GenerateHtml
    \/ ScrapeSinglePost(SteadyLikes)

SpecPremium == Init /\ [][NextPremium]_vars

\* ------------------------------------------- the constructor's arguments

\* base URLs a scraper may be constructed with: the site's address with and
\* without its final "/", and the addresses of two posts
BaseUrls ==
    {<<"w">>, <<"w","/">>, <<"w","/">> \o UA,
     <<"s","/","h","o","m","e","/","p","o","s","t","/","p","-","1">>}

\* __init__: `if not base_substack_url.endswith("/"): base_substack_url += "/"`
WithSlash(base) ==
    IF base # <<>> /\ base[Len(base)] = "/" THEN base ELSE base \o <<"/">>

\* __init__: `"/home/post/" in base_substack_url or "/p/" in base_substack_url`
LooksLikePostUrl(base) ==
    \/ IsSubstring(<<"/","h","o","m","e","/","p","o","s","t","/">>, base)
    \/ IsSubstring(<<"/","p","/">>, base)

\* faulty variant: Discovery runs whatever the arguments are
InitPostUrls_always(skip_url_fetch, base, sm, fd) ==
    LET r == get_all_post_urls(sm, fd)
    IN  [exc |-> r.exc, val |-> r.val,
         requests |-> {"sitemap"} \cup (IF r.feed THEN {"feed"} ELSE {})]

\* __init__: self.post_urls, and the discovery requests issued for it
InitPostUrls(skip_url_fetch, base, sm, fd) ==
    IF skip_url_fetch \/ LooksLikePostUrl(WithSlash(base))
    THEN [exc |-> FALSE, val |-> <<>>, requests |-> {}]
    ELSE LET r == get_all_post_urls(sm, fd)
         IN  [exc |-> r.exc, val |-> r.val,
              requests |-> {"sitemap"} \cup
                           (IF r.feed THEN {"feed"} ELSE {})]

\* answers of a discovery source that suffice to tell the constructor's
\* branches apart
FewSourceResponses ==
    {RespRaises, RespNotOk, RespOk(<<UA>>), RespOk(<<UB, UA>>)}

\* the arguments of a constructor call and the requests it issued
Constructed(skip_url_fetch, base, requests) ==
    [skip_url_fetch |-> skip_url_fetch, base |-> base, requests |-> requests]

\* BaseSubstackScraper.__init__ as its callers use it: skip_url_fetch is
\* passed, with the site's address, by the callers that go on to
\* scrape_single_post; the others pass the URL they were given and go on to
\* scrape_posts. The sources' answers are told apart only when a request
\* is issued.
ConstructWith(dirs) ==
    /\ Between /\ runs < MaxRuns
    /\ \E dir \in dirs, skip \in BOOLEAN, base \in BaseUrls,
          sm \in FewSourceResponses, fd \in FewSourceResponses :
       \E r \in {InitPostUrls(skip, base, sm, fd)} :
         /\ skip => ~LooksLikePostUrl(WithSlash(base))
         /\ "sitemap" \notin r.requests => sm = RespNotOk
         /\ "feed" \notin r.requests => fd = RespNotOk
         /\ StartRunWith(IF skip THEN "single" ELSE "bulk", dir, r.val,
                         IF r.exc THEN "crashed" ELSE "ready", "none")
         /\ ret' = Constructed(skip, base, r.requests)
         /\ arg' = NoArg

\* the next statement of a scrape_posts call
ScrapePostsStep ==
    \/ BeginScrapePosts(SteadyLikes)
    \/ ProcessUrl
    \/ MergeIndex
    \/ GenerateHtml

\* Sequential runs, the constructor's arguments varying
NextSingle ==
    \/ ConstructWith(DefaultMdDirs)
    \/ ScrapePostsStep
    \/ ScrapeSinglePost(SteadyLikes)

SpecSingle == Init /\ [][NextSingle]_vars

\* The same runs. scrape_posts is sequential code: once called it goes on,
\* statement by statement, until it returns.
SpecBulk == Init /\ [][NextSingle]_vars /\ WF_vars(ScrapePostsStep)

\* ------------------------------------- a site whose URLs share file names

\* post URLs with the same text after the last "/", and post URLs that end
\* in "/"
SlugUrls ==
    {<<"p","/","a">>, <<"q","/","a">>, <<"p","/","a","/">>,
     <<"p","/","b","/">>}

\* sitemaps of that site
SlugSitemaps == {RespOk(q) : q \in SeqsUpTo(SlugUrls, MaxUrls)}

\* BaseSubstackScraper.__init__ for that site; its feed lists nothing
ConstructFrom(dirs, sitemaps) ==
    /\ Between /\ runs < MaxRuns
    /\ \E dir \in dirs, sm \in sitemaps :
       \E r \in {get_all_post_urls(sm, RespOk(<<>>))} :
         StartRun("bulk", dir, r.val, IF r.exc THEN "crashed" ELSE "ready",
                  "none")

\* Sequential bulk runs for that site
NextSlugs ==
    \/ ConstructFrom(DefaultMdDirs, SlugSitemaps)
    \/ ScrapePostsStep

SpecSlugs == Init /\ [][NextSlugs]_vars

\* ------------------------------------------------------- the GUI

\* The GUI runs run_scraper on a background thread. One scraper thread is
\* followed step by step (pc, i, files, ...); threads started while it is
\* still running are only counted (extra).
Running == pc # "idle"

\* SubstackScraperGUI.start_scraping, inputs valid: the Start button is
\* pressed
start_scraping ==
    /\ start_button = "normal"
    /\ scraping' = TRUE
    /\ start_button' = "disabled" /\ stop_button' = "normal"
    /\ IF Running
       THEN /\ extra < MaxExtraThreads
            /\ extra' = extra + 1
            /\ UNCHANGED <<pc, stop_at>>
       ELSE /\ runs < MaxRuns
            /\ pc' = "spawned" /\ stop_at' = 0
            /\ UNCHANGED extra
    /\ UNCHANGED <<runs, mode, md_save_dir, post_urls, num_posts_to_scrape,
                   likes, i, count, essays_data, log, oracle, rerun, raised,
                   files, json, author_html, files0, json0, arg, ret, driver>>

\* SubstackScraperGUI.stop_scraping: the Stop button is pressed
stop_scraping ==
    /\ stop_button = "normal"
    /\ scraping' = FALSE
    /\ start_button' = "normal" /\ stop_button' = "disabled"
    /\ stop_at' = IF pc = "loop" THEN i + 1
                  ELSE IF pc \in {"spawned", "ready"} THEN 1
                  ELSE Len(log) + 1
    /\ UNCHANGED <<pc, runs, mode, md_save_dir, post_urls, num_posts_to_scrape,
                   likes, i, count, essays_data, log, oracle, rerun, raised,
                   files, json, author_html, files0, json0, arg, ret, driver,
                   extra>>

\* run_scraper up to the scraper's construction (anonymous scraper)
RunScraperConstruct ==
    /\ pc = "spawned"
    /\ \/ \E sm \in SourceResponses :
          \E fd \in FeedResponsesFor(sm) :
            LET r == get_all_post_urls(sm, fd)
            IN  IF r.exc
                THEN StartRun("bulk", BASE_MD_DIR, <<>>, "crashed", "none")
                ELSE StartRun("bulk", BASE_MD_DIR, r.val, "ready", "none")
       \/ StartRun("single", BASE_MD_DIR, <<>>, "ready", "none")

\* run_scraper's except and finally clauses: the thread ends
RunScraperFinally ==
    /\ pc \in {"done", "crashed"}
    /\ pc' = "idle"
    /\ scraping' = FALSE
    /\ start_button' = "normal" /\ stop_button' = "disabled"
    /\ UNCHANGED <<runs, mode, md_save_dir, post_urls, num_posts_to_scrape,
                   likes, i, count, essays_data, log, oracle, rerun, raised,
                   files, json, author_html, files0, json0, arg, ret, driver,
                   stop_at, extra>>

\* the finally clause of a thread that is only counted
ExtraThreadEnds ==
    /\ extra > 0
    /\ extra' = extra - 1
    /\ scraping' = FALSE
    /\ start_button' = "normal" /\ stop_button' = "disabled"
    /\ UNCHANGED <<pc, runs, mode, md_save_dir, post_urls, num_posts_to_scrape,
                   likes, i, count, essays_data, log, oracle, rerun, raised,
                   files, json, author_html, files0, json0, arg, ret, driver,
                   stop_at>>

NextGui ==
    \/ start_scraping
    \/ stop_scraping
    \/ RunScraperConstruct
    \/ BeginScrapePosts(SteadyLikes)
    \/ ProcessUrl
    \/ MergeIndex
    \/ GenerateHtml
    \/ ScrapeSinglePost(SteadyLikes)
    \/ RunScraperFinally
    \/ ExtraThreadEnds

SpecGui == Init /\ [][NextGui]_vars

\* ------------------------------------------- filter_urls on its own

FilterTexts == {<<>>, <<"a">>, <<"b">>, <<"a","b">>, <<"b","a">>}
KeywordTexts == {<<>>, <<"a">>, <<"b">>, <<"a","b">>}

IdleRun ==
    /\ runs = 0 /\ mode = "none" /\ md_save_dir = BASE_MD_DIR
    /\ post_urls = <<>> /\ num_posts_to_scrape = 0 /\ likes = "0"
    /\ i = 1 /\ count = 0 /\ essays_data = <<>> /\ log = <<>>
    /\ oracle = <<>> /\ rerun = FALSE /\ raised = FALSE
    /\ files = NoFiles /\ json = NoJson /\ author_html = NoJson
    /\ files0 = NoFiles /\ json0 = NoJson
    /\ driver = "none" /\ NoGui

callvars == <<runs, mode, md_save_dir, post_urls, num_posts_to_scrape, likes,
              i, count, essays_data, log, oracle, rerun, raised, files, json,
              author_html, files0, json0, arg, driver, scraping,
              start_button, stop_button, stop_at, extra>>

InitFilter ==
    /\ IdleRun /\ pc = "call" /\ ret = NoArg
    /\ arg \in [urls : SeqsUpTo(FilterTexts, MaxFilterUrls),
                keywords : SeqsUpTo(KeywordTexts, MaxKeywords)]

\* a call of filter_urls(urls, keywords)
ApplyFilter ==
    /\ pc = "call"
    /\ ret' = Returned(filter_urls(arg.urls, arg.keywords))
    /\ pc' = "returned"
    /\ UNCHANGED callvars

NextFilter == ApplyFilter

SpecFilter == InitFilter /\ [][NextFilter]_vars

\* ------------------------------------- get_all_post_urls on its own

\* a feed item without a link text is listed as the empty text
SitemapResponses ==
    {RespRaises, RespNotOk, RespUnparseable}
        \cup {RespOk(q) : q \in SeqsUpTo(SiteUrls, MaxSourceLen)}
FeedResponses ==
    {RespRaises, RespNotOk, RespUnparseable}
        \cup {RespOk(q) : q \in SeqsUpTo(SiteUrls \cup {<<>>}, MaxSourceLen)}

InitDiscovery ==
    /\ IdleRun /\ pc = "call" /\ ret = NoArg
    /\ arg \in [sitemap : SitemapResponses, feed : FeedResponses]

\* a call of get_all_post_urls() while the site's sources answer as in arg
Discover ==
    /\ pc = "call"
    /\ ret' = get_all_post_urls(arg.sitemap, arg.feed)
    /\ pc' = "returned"
    /\ UNCHANGED callvars

NextDiscovery == Discover

SpecDiscovery == InitDiscovery /\ [][NextDiscovery]_vars

\* ------------------------------------------ get_url_soup on its own

\* str.rstrip('/')
RECURSIVE RStripSlash(_)
RStripSlash(t) ==
    IF t # <<>> /\ t[Len(t)] = "/" THEN RStripSlash(SubSeq(t, 1, Len(t) - 1))
    ELSE t

\* str.startswith
StartsWith(t, prefix) ==
    Len(prefix) <= Len(t) /\ SubSeq(t, 1, Len(prefix)) = prefix

\* A URL is its network location and its path; UrlText is the URL as the
\* string the browser reports, UrlPath is urlparse(url).path.
Url(netloc, path) == [netloc |-> netloc, path |-> path]
UrlText(u) == u.netloc \o u.path
UrlPath(u) == u.path

\* network locations: the publication's and Substack's own
NetlocSite == <<"w">>
NetlocSubstack == <<"s">>

\* paths of the modelled web
PathRoot == <<"/">>
PathHome == <<"/","h","o","m","e">>
PathHomeSlash == <<"/","h","o","m","e","/">>
PathHomeFor == <<"/","h","o","m","e","/","f","o","r">>
PathHomePost == <<"/","h","o","m","e","/","p","o","s","t","/","p","-","1">>
PathInbox == <<"/","i","n","b","o","x">>
PathFeed == <<"/","f","e","e","d">>
PathSignIn == <<"/","s","i","g","n","-","i","n">>
PathPostA == <<"/","p","/","a">>
PathPostB == <<"/","p","/","b">>

\* URLs a fetch may be asked for
TargetUrls ==
    {Url(NetlocSite, PathPostA), Url(NetlocSite, PathPostB),
     Url(NetlocSubstack, PathHomePost), Url(NetlocSubstack, PathHome),
     Url(NetlocSite, PathRoot)}

\* URLs the browser may have landed on after driver.get(url)
LandedUrls ==
    {Url(NetlocSite, PathPostA), Url(NetlocSite, PathPostB),
     Url(NetlocSite, <<>>), Url(NetlocSite, PathRoot),
     Url(NetlocSubstack, PathHome), Url(NetlocSubstack, PathHomeSlash),
     Url(NetlocSubstack, PathHomeFor), Url(NetlocSubstack, PathHomePost),
     Url(NetlocSubstack, PathInbox), Url(NetlocSubstack, PathFeed),
     Url(NetlocSubstack, PathSignIn)}

\* the parsed page a fetch returns: the document loaded from `from`
SoupOf(u, paywall) == [is_none |-> FALSE, from |-> u, paywall |-> paywall]
\* Python's None
NoneSoup == [is_none |-> TRUE, from |-> Url(<<>>, <<>>), paywall |-> FALSE]

\* One fetch as the outside world answers it: `raises` = requests.get or
\* driver.get raises; `current` = the URL the navigation ended on;
\* `paywall` = the loaded page carries the paywall marker; `marker` = one of
\* post-title / paywall-title / available-content appears within the wait.
Fetches ==
    [scraper : {"anonymous"}, url : TargetUrls, current : {Url(<<>>, <<>>)},
     raises : BOOLEAN, paywall : BOOLEAN, marker : {TRUE}]
    \cup
    [scraper : {"premium"}, url : TargetUrls, current : LandedUrls,
     raises : BOOLEAN, paywall : {FALSE}, marker : BOOLEAN]

\* SubstackScraper.get_url_soup
get_url_soup(f) ==
    IF f.raises THEN Raised
    ELSE IF f.paywall THEN Returned(NoneSoup)
    ELSE Returned(SoupOf(f.url, FALSE))

\* faulty variant: the inbox is not taken for a home surface
home_paths_no_inbox == {<<>>, PathHome, PathFeed}

\* PremiumSubstackScraper.get_url_soup: _home_paths
home_paths == {<<>>, PathHome, PathInbox, PathFeed}

\* PremiumSubstackScraper.get_url_soup
premium_get_url_soup(f) ==
    LET current == UrlText(f.current)
        current_path == RStripSlash(UrlPath(f.current))
        target_path == RStripSlash(UrlPath(f.url))
        sign_in == <<"s","i","g","n","-","i","n">>
        home == <<"/","h","o","m","e">>
        post == <<"/","p","o","s","t","/">>
    IN  IF f.raises THEN Raised
        ELSE IF IsSubstring(sign_in, current) THEN Raised
        ELSE IF /\ \/ current_path \in home_paths
                   \/ /\ StartsWith(current_path, home)
                      /\ ~IsSubstring(post, current_path)
                /\ target_path \notin home_paths
        THEN Raised
        ELSE IF /\ ~f.marker
                /\ IsSubstring(home, current)
                /\ ~IsSubstring(post, current)
                /\ ~IsSubstring(<<"p","-">>, current)
        THEN Raised
        ELSE Returned(SoupOf(f.current, f.paywall))

InitFetch ==
    /\ IdleRun /\ pc = "call" /\ ret = NoArg
    /\ arg \in Fetches

\* a call of get_url_soup(url) of the anonymous scraper
FetchAnonymous ==
    /\ pc = "call" /\ arg.scraper = "anonymous"
    /\ ret' = get_url_soup(arg)
    /\ pc' = "returned"
    /\ UNCHANGED callvars

\* a call of get_url_soup(url) of the authenticated scraper
FetchPremium ==
    /\ pc = "call" /\ arg.scraper = "premium"
    /\ ret' = premium_get_url_soup(arg)
    /\ pc' = "returned"
    /\ UNCHANGED callvars

NextFetch == FetchAnonymous \/ FetchPremium

SpecFetch == InitFetch /\ [][NextFetch]_vars

\* ------------------------------------------------- login on its own

\* PremiumSubstackScraper.login, statement by statement, on a browser that
\* webdriver.Chrome has started. The browser answers each read of
\* driver.current_url and each look for the error container as it stands at
\* that moment; arg keeps what the code read, ret.session the session state.

\* no URL read yet
NoUrl == Url(<<>>, <<>>)

\* where the browser may be after the credentials were submitted
LoginUrls ==
    {Url(NetlocSubstack, PathSignIn), Url(NetlocSubstack, PathHome),
     Url(NetlocSubstack, PathInbox), Url(NetlocSite, PathRoot)}

\* login: `"sign-in" in self.driver.current_url`
OnSignIn(current_url) ==
    IsSubstring(<<"s","i","g","n","-","i","n">>, UrlText(current_url))

\* faulty variant: a visible error element fails the login wherever the
\* browser is
LoginUnsuccessful_any_error(current_url, error) == error

\* login: `"sign-in" in self.driver.current_url and self.is_login_failed()`
LoginUnsuccessful(current_url, error) == OnSignIn(current_url) /\ error

\* what login has read so far
Reads(waited, url1, error1, url2, url3) ==
    [waited |-> waited, url1 |-> url1, error1 |-> error1,
     url2 |-> url2, url3 |-> url3]

loginvars == <<runs, mode, md_save_dir, post_urls, num_posts_to_scrape, likes,
               i, count, essays_data, log, oracle, rerun, files, json,
               author_html, files0, json0, driver, scraping,
               start_button, stop_button, stop_at, extra>>

InitLogin ==
    /\ runs = 0 /\ mode = "none" /\ md_save_dir = BASE_MD_DIR
    /\ post_urls = <<>> /\ num_posts_to_scrape = 0 /\ likes = "0"
    /\ i = 1 /\ count = 0 /\ essays_data = <<>> /\ log = <<>>
    /\ oracle = <<>> /\ rerun = FALSE /\ raised = FALSE
    /\ files = NoFiles /\ json = NoJson /\ author_html = NoJson
    /\ files0 = NoFiles /\ json0 = NoJson
    /\ driver = "live" /\ NoGui
    /\ pc = "login" /\ ret = Session("Anonymous")
    /\ arg = Reads("none", NoUrl, FALSE, NoUrl, NoUrl)

\* an exception leaves login, and with it the constructor
LoginRaises ==
    /\ pc' = "ended" /\ ret' = Session("Failed") /\ raised' = TRUE

\* login returns
LoginReturns ==
    /\ pc' = "ended" /\ ret' = Session("Authenticated") /\ raised' = FALSE

\* login: the sign-in page is opened and the password option awaited (10 s)
LoginOpenSignIn ==
    /\ pc = "login"
    /\ \E present \in BOOLEAN :
         IF present
         THEN pc' = "option" /\ UNCHANGED <<ret, raised>>
         ELSE LoginRaises
    /\ UNCHANGED <<arg, loginvars>>

\* login: the option is clicked, the credential form awaited (10 s), filled
\* in and submitted
LoginSubmit ==
    /\ pc = "option"
    /\ \E present \in BOOLEAN :
         IF present
         THEN /\ pc' = "submitted" /\ ret' = Session("Authenticating")
              /\ UNCHANGED raised
         ELSE LoginRaises
    /\ UNCHANGED <<arg, loginvars>>

\* login: wait_long.until(...) ends because the browser left the sign-in
\* page, because the error element is visible, or by its 25 s timeout,
\* which is caught
LoginWaitRedirect ==
    /\ pc = "submitted"
    /\ \E w \in {"left", "error", "timeout"} :
         arg' = [arg EXCEPT !.waited = w]
    /\ pc' = "check"
    /\ UNCHANGED <<ret, raised, loginvars>>

\* login: the first check after the wait
LoginCheckUnsuccessful ==
    /\ pc = "check"
    /\ \E u \in LoginUrls, e \in BOOLEAN :
         /\ arg' = [arg EXCEPT !.url1 = u, !.error1 = e]
         /\ IF LoginUnsuccessful(u, e)
            THEN LoginRaises
            ELSE pc' = "check_still" /\ UNCHANGED <<ret, raised>>
    /\ UNCHANGED loginvars

\* login: the second read of current_url
LoginCheckStill ==
    /\ pc = "check_still"
    /\ \E u \in LoginUrls :
         /\ arg' = [arg EXCEPT !.url2 = u]
         /\ IF OnSignIn(u)
            THEN pc' = "grace" /\ UNCHANGED <<ret, raised>>
            ELSE LoginReturns
    /\ UNCHANGED loginvars

\* login: sleep(3) and the last read of current_url
LoginGrace ==
    /\ pc = "grace"
    /\ \E u \in LoginUrls :
         /\ arg' = [arg EXCEPT !.url3 = u]
         /\ IF OnSignIn(u) THEN LoginRaises ELSE LoginReturns
    /\ UNCHANGED loginvars

NextLogin ==
    \/ LoginOpenSignIn
    \/ LoginSubmit
    \/ LoginWaitRedirect
    \/ LoginCheckUnsuccessful
    \/ LoginCheckStill
    \/ LoginGrace

\* every wait of login is bounded and nothing else runs in the constructor:
\* a statement that can be executed is executed
SpecLogin == InitLogin /\ [][NextLogin]_vars /\ WF_vars(NextLogin)

\* --------------------------------------- extract_post_data on its own

\* heading elements of a page: the post title, a generic secondary
\* heading (its text padded with a blank), the site's own h1
HPostTitle == [sel |-> "h1.post-title", text |-> <<"T">>]
HSecond == [sel |-> "h2", text |-> <<"V", " ">>]
HSite == [sel |-> "h1", text |-> <<"S">>]
HeadingElements == {HPostTitle, HSecond, HSite}

\* datePublished texts: a UTC timestamp, a plain date, a timestamp with
\* month 13, words
DateIso ==
    <<"2","0","2","4","-","0","3","-","0","5","T",
      "0","0",":","0","0",":","0","0","Z">>
DateDay == <<"2","0","2","3","-","1","2","-","3","1">>
DateBadMonth ==
    <<"2","0","2","4","-","1","3","-","0","5","T",
      "0","0",":","0","0",":","0","0","Z">>
DateWords == <<"s","o","o","n">>
DateTexts == {DateIso, DateDay, DateBadMonth, DateWords}

\* text of the styled date element
StyledDate == <<"J","a","n"," ","0","2",","," ","2","0","2","4">>

\* what the page's structured-data script may hold
LdScripts ==
    {NoScript, EmptyScript, Script(JsonInvalid),
     Script(JsonValue("number", FALSE)), Script(JsonValue("null", FALSE)),
     Script(JsonValue("array", FALSE)), Script(JsonValue("array", TRUE)),
     Script(JsonValue("string", FALSE)), Script(JsonValue("string", TRUE)),
     Script(JsonValue("object", FALSE)),
     Script(JsonObjectWithDate("number", <<>>)),
     Script(JsonObjectWithDate("null", <<>>))}
    \cup {Script(JsonObjectWithDate("string", t)) : t \in DateTexts}

\* post pages, well-formed and not
Pages ==
    {Page(h, sub, de, ld, lk, <<"c">>) :
        h \in SeqsUpTo(HeadingElements, MaxHeadings),
        sub \in {NoElement, Element(<<"s">>)},
        de \in {NoElement, Element(<<" ">>), Element(StyledDate)},
        ld \in LdScripts,
        lk \in {NoElement, Element(<<"7">>), Element(<<"1", "K">>)}}

InitExtract ==
    /\ IdleRun /\ pc = "call" /\ ret = NoArg
    /\ arg \in Pages

\* a call of extract_post_data(soup)
ApplyExtract ==
    /\ pc = "call"
    /\ ret' = extract_post_data(arg)
    /\ pc' = "returned"
    /\ UNCHANGED callvars

NextExtract == ApplyExtract

SpecExtract == InitExtract /\ [][NextExtract]_vars

\* =================================================================
\* Properties
\* =================================================================

\* k occurs in u: u = pre \o k \o suf for some pre, suf
Contains(k, u) ==
    \E a \in 0..Len(u), b \in 0..Len(u) : a <= b /\ SubSeq(u, a + 1, b) = k

\* positions of urls whose URL contains none of the keywords
CleanPositions(urls, kws) ==
    {m \in 1..Len(urls) : \A j \in 1..Len(kws) : ~Contains(kws[j], urls[m])}

\* the URLs at the clean positions, in their original order
CleanSubsequence(urls, kws) ==
    LET cp == CleanPositions(urls, kws)
        nth(j) == CHOOSE m \in cp : Cardinality({x \in cp : x <= m}) = j
    IN  [j \in 1..Cardinality(cp) |-> urls[nth(j)]]

\* the browsable page lists the posts of index js, one entry per record in
\* the index's order, with links that lead from the page to the artifacts
PageShows(page, js) ==
    /\ page.exists
    /\ Len(page.data) = Len(js.data)
    /\ \A k \in 1..Len(js.data) :
          /\ page.data[k].title = js.data[k].title
          /\ page.data[k].like_count = js.data[k].like_count
          /\ page.data[k].html_link = <<js.data[k].html_link[2]>>
          /\ page.data[k].file_link = <<"..">> \o js.data[k].file_link

NoDuplicates(q) == \A a, b \in 1..Len(q) : a # b => q[a] # q[b]

IsPrefix(a, b) == Len(a) <= Len(b) /\ SubSeq(b, 1, Len(a)) = a

Range(q) == {q[k] : k \in 1..Len(q)}

\* the artifact paths of a URL in the current run
MdPathOf(url) == PathJoin(md_save_dir, get_filename_from_url(url, MdExt))
HtmlPathOf(url) == PathJoin(HtmlDir, get_filename_from_url(url, HtmlExt))

\* Markdown files this run has created
NewMdFiles == {p \in DOMAIN files : p \notin DOMAIN files0 /\ p[1] \in MdDirs}

\* positions of this run at which a post was attempted (fetched and not
\* skipped as paywalled)
Attempted == {k \in 1..Len(log) : log[k] \in {"ok"} \cup Errors}
Succeeded == {k \in 1..Len(log) : log[k] = "ok"}

\* scrape_posts has left its for loop
AfterLoop == mode = "bulk" /\ pc \in {"merge", "gen", "done"}

\* ---- C9 (SpecFilter)
\* C9: filter_urls returns exactly the input URLs that contain none of the
\* keywords as a substring, in their original relative order.
C9_FilterExact ==
    pc = "returned" =>
        /\ ~ret.exc
        /\ ret.val = CleanSubsequence(arg.urls, arg.keywords)

\* C9 witness: of two URLs the first holds a keyword and is dropped, the
\* second holds none and is kept
C9_Witness ==
    /\ pc = "returned"
    /\ Len(arg.urls) = 2 /\ Len(arg.keywords) = 2
    /\ Contains(arg.keywords[2], arg.urls[1])
    /\ ~Contains(arg.keywords[1], arg.urls[1])
    /\ ret.val = <<arg.urls[2]>>

\* ---- C10 (SpecDiscovery)
\* the URLs the feed source yields
FeedList(fd) ==
    IF fd.kind = "ok" THEN SelectSeq(fd.urls, LAMBDA t : t # <<>>) ELSE <<>>

\* a source that is unreachable (the request fails or is answered with an
\* error status) or yields no URLs
SitemapUnusable(sm) == sm.kind # "ok" \/ sm.urls = <<>>
FeedUnusable(fd) == fd.kind # "ok" \/ FeedList(fd) = <<>>

\* C10: when the sitemap is unreachable or yields no URLs the result is the
\* keyword-filtered feed result; when the sitemap yields a URL the feed is
\* not consulted and the result is the keyword-filtered sitemap result;
\* when neither source is usable the result is empty and nothing is raised.
C10_Fallback ==
    pc = "returned" =>
        /\ SitemapUnusable(arg.sitemap) =>
              /\ ~ret.exc
              /\ ret.val = CleanSubsequence(FeedList(arg.feed), keywords)
        /\ ~SitemapUnusable(arg.sitemap) =>
              /\ ~ret.exc /\ ~ret.feed
              /\ ret.val = CleanSubsequence(arg.sitemap.urls, keywords)
        /\ SitemapUnusable(arg.sitemap) /\ FeedUnusable(arg.feed) =>
              /\ ~ret.exc /\ ret.val = <<>>

\* fetching the source fails: the request raises or the answer is not XML
Fails(resp) == resp.kind \in {"raises", "unparseable"}

\* The fallback chain of C10 for sources that answer with well-formed XML
\* or with an error status: it holds whenever no fetch fails.
FallbackWhenNoRequestRaises ==
    (~Fails(arg.sitemap)
        /\ (SitemapUnusable(arg.sitemap) => ~Fails(arg.feed)))
    => C10_Fallback

\* ---- C11 (SpecDiscovery)
\* C11: a discovery source whose request raises or whose response cannot
\* be parsed is an unusable source: nothing is raised by Discovery; when it
\* is the sitemap the feed is consulted and the result is the
\* keyword-filtered feed result; when it is the feed the result is empty.
C11_SourceFailureNotFatal ==
    pc = "returned" =>
        /\ ~ret.exc
        /\ Fails(arg.sitemap) =>
              /\ ret.feed
              /\ ret.val = CleanSubsequence(FeedList(arg.feed), keywords)
        /\ (SitemapUnusable(arg.sitemap) /\ Fails(arg.feed)) => ret.val = <<>>

\* ---- C12 (Spec)
\* C12: the working set of post URLs handed to the scrape loop never holds
\* the same URL twice, whatever the sitemap or the feed lists.
C12_NoDuplicateUrls == NoDuplicates(post_urls)

\* ---- C1 (Spec)
\* C1: a full-site scrape repeated right away, with the same URL list, cap
\* and fetch outcomes, creates no file, leaves every file as it was, and
\* leaves the index with the same records, none of them twice.
C1_Idempotent ==
    rerun =>
        /\ files = files0
        /\ pc = "done" =>
              /\ json = json0
              /\ NoDuplicates(json.data)
              /\ PageShows(author_html, json0)

\* C1 witness: a capped run over two different URLs was repeated; the
\* repetition met the saved post and stopped at the cap again
C1_Witness ==
    /\ rerun /\ pc = "done"
    /\ num_posts_to_scrape = 1
    /\ Len(post_urls) = 2 /\ post_urls[1] # post_urls[2]
    /\ log = <<"exists">>
    /\ Len(json.data) = 1

\* ---- C2 (Spec)
\* C2: a bulk run with cap N > 0 creates at most N new Markdown files,
\* whatever the URLs of the list do.
C2_CapBound ==
    (mode = "bulk" /\ num_posts_to_scrape > 0) =>
        Cardinality(NewMdFiles) <= num_posts_to_scrape

\* C2 witness: a capped run that met a failing URL and still created as
\* many Markdown files as the cap allows
C2_Witness ==
    /\ pc = "done" /\ mode = "bulk"
    /\ num_posts_to_scrape = 2
    /\ log = <<"html_error", "ok">>
    /\ Cardinality(NewMdFiles) = 2

\* ---- C3 (Spec)
\* no URL of the list has its Markdown file when the run starts
NoneSavedAtStart ==
    \A k \in 1..Len(post_urls) : ~PathExists(files0, MdPathOf(post_urls[k]))

\* every URL processed so far was fetched, extracted and persisted without
\* an error and without meeting the paywall
AllSucceed == \A k \in 1..Len(log) : log[k] \notin Errors \cup {"paywall"}

\* C3: with cap N > 0, at least N URLs, none saved and all succeeding,
\* exactly the first N URLs get their .md and .html artifacts, no later
\* URL is visited, and the index gains exactly N records, in that order,
\* the k-th with the file_link of the k-th URL.
C3_CapExact ==
    (/\ pc = "done" /\ mode = "bulk"
     /\ num_posts_to_scrape > 0
     /\ Len(post_urls) >= num_posts_to_scrape
     /\ NoneSavedAtStart /\ AllSucceed)
    =>
    /\ Len(log) = num_posts_to_scrape
    /\ \A k \in 1..num_posts_to_scrape :
          /\ PathExists(files, MdPathOf(post_urls[k]))
          /\ PathExists(files, HtmlPathOf(post_urls[k]))
    /\ Len(json.data) = Len(json0.data) + num_posts_to_scrape
    /\ \A k \in 1..num_posts_to_scrape :
          json.data[Len(json0.data) + k].file_link = MdPathOf(post_urls[k])

\* C3 holds for lists whose first N URLs name N different files.
CapExactForDistinctSlugs ==
    (\A a, b \in 1..Len(post_urls) :
        a # b => MdPathOf(post_urls[a]) # MdPathOf(post_urls[b]))
    => C3_CapExact

\* ---- C4 (Spec)
\* C4: with cap N > 0, a URL skipped because its Markdown file exists uses
\* no slot of the cap: the loop stops before the end of the list only once
\* N posts have been attempted in this run.
C4_SkipUsesNoSlot ==
    (AfterLoop /\ num_posts_to_scrape > 0 /\ i <= Len(post_urls)) =>
        Cardinality(Attempted) = num_posts_to_scrape

\* ---- C5 (Spec)
\* C5: an exception while one URL is fetched, extracted or persisted does
\* not leave scrape_posts; the loop goes on until the list is exhausted or
\* the loop's count reaches the cap; the merge and the regeneration of the
\* browsable index then run with the records of the URLs that succeeded.
C5_FailureIsolated ==
    /\ (mode = "bulk" /\ log # <<>>) => (~raised /\ pc # "crashed")
    /\ AfterLoop =>
          /\ \/ i > Len(post_urls)
             \/ (num_posts_to_scrape # 0 /\ count = num_posts_to_scrape)
          /\ Len(essays_data) = Cardinality(Succeeded)
    /\ (pc = "done" /\ mode = "bulk") =>
          /\ json.exists
          /\ Range(essays_data) \subseteq Range(json.data)
          /\ PageShows(author_html, json)

\* C5 witness: a run whose first URL failed and whose second URL was
\* scraped and indexed
C5_Witness ==
    /\ pc = "done" /\ mode = "bulk"
    /\ Len(log) = 2 /\ log[1] \in Errors /\ log[2] = "ok"
    /\ Len(essays_data) = 1 /\ essays_data[1] \in Range(json.data)

\* ---- C6 (Spec)
\* the records of the batch that the index did not hold, in batch order
NewOf(batch, old) == SelectSeq(batch, LAMBDA d : d \notin Range(old))

\* C6: the index is append-only: the index as it was when a run started is
\* a prefix of the index at every later point of the run, and a merge adds
\* the new records of the batch behind it in the order they were
\* accumulated.
C6_AppendOnly ==
    /\ IsPrefix(json0.data, json.data)
    /\ json0.exists => json.exists
    /\ pc \in {"gen", "done"} =>
          json.data = json0.data \o NewOf(essays_data, json0.data)

\* C6 witness: a merge into an index that held a record added one behind it
C6_Witness ==
    /\ pc = "done"
    /\ Len(json0.data) >= 1
    /\ Len(json.data) > Len(json0.data)

\* ---- C7 (Spec)
\* C7: the persisted index never holds two records equal in all fields.
C7_NoDuplicateRecords == NoDuplicates(json.data)

\* C7 witness: the index did not exist, the list named the same URL twice,
\* and the merged batch holds the post once
C7_Witness ==
    /\ pc = "done" /\ mode = "bulk"
    /\ ~json0.exists
    /\ Len(post_urls) = 2 /\ post_urls[1] = post_urls[2]
    /\ log = <<"ok", "exists">>
    /\ Len(json.data) = 1

\* ---- C13 (Spec)
\* C13: the loop step of a bulk run whose anonymous fetch met the paywall
\* marker (get_url_soup returned None) writes no Markdown file and no HTML
\* file, adds no record to the batch or the index, raises nothing, and
\* goes on with the next URL of the list (or leaves the loop at its end).
C13_PaywallSkipped ==
    [][(pc = "loop" /\ log' = Append(log, "paywall")) =>
          /\ files' = files
          /\ essays_data' = essays_data /\ json' = json
          /\ ~raised' /\ pc' # "crashed"
          /\ i' = i + 1
          /\ pc' = IF i + 1 > Len(post_urls) THEN "merge" ELSE "loop"]_vars

\* C13 witness: the first of two different URLs was paywalled, the second
\* was scraped; only the second has artifacts and a record
C13_Witness ==
    /\ pc = "done" /\ mode = "bulk" /\ ~raised
    /\ Len(post_urls) = 2 /\ post_urls[1] # post_urls[2]
    /\ log = <<"paywall", "ok">>
    /\ DOMAIN files = {MdPathOf(post_urls[2]), HtmlPathOf(post_urls[2])}
    /\ Len(json.data) = 1
    /\ json.data[1].file_link = MdPathOf(post_urls[2])

\* The fetch side of C13 (SpecFetch): an anonymous fetch whose page carries
\* the paywall marker returns None and raises nothing.
PaywalledPageIsSkipped ==
    (pc = "returned" /\ arg.scraper = "anonymous"
        /\ ~arg.raises /\ arg.paywall)
    => (~ret.exc /\ ret.val.is_none)

\* ---- C14 (SpecFetch)
\* a path without its trailing slashes
Trimmed(t) ==
    LET ends == {k \in 0..Len(t) :
                    /\ k = 0 \/ t[k] # "/"
                    /\ \A m \in (k + 1)..Len(t) : t[m] = "/"}
    IN  SubSeq(t, 1, CHOOSE k \in ends : TRUE)

\* the home, inbox and feed surfaces
HomeSurface(path) == Trimmed(path) \in {<<>>, PathHome, PathInbox, PathFeed}

\* C14: an authenticated fetch of a URL whose path is no home, inbox or
\* feed path, which lands on such a path or on the sign-in path, raises and
\* returns no page.
C14_HomeLandingRaises ==
    (/\ pc = "returned" /\ arg.scraper = "premium"
     /\ ~HomeSurface(arg.url.path)
     /\ \/ HomeSurface(arg.current.path)
        \/ Trimmed(arg.current.path) = PathSignIn)
    => ret.exc

\* C14 witness: the navigation to a post succeeded, the content markers
\* were seen, the browser is on the inbox, and the fetch raised
C14_Witness ==
    /\ pc = "returned" /\ arg.scraper = "premium"
    /\ ~arg.raises /\ arg.marker
    /\ arg.url.path = PathPostA /\ arg.current.path = PathInbox
    /\ ret.exc

\* ---- C15 (SpecFetch)
\* C15: an authenticated fetch that ends on a path other than the
\* requested one, whatever the surface, raises and returns no page.
C15_AnyMismatchRaises ==
    (/\ pc = "returned" /\ arg.scraper = "premium"
     /\ Trimmed(arg.current.path) # Trimmed(arg.url.path))
    => ret.exc

\* The mismatches the fetch does detect: a landing on a home surface, under
\* /home outside /home/post/, or on the sign-in page.
DetectedMismatchRaises ==
    (/\ pc = "returned" /\ arg.scraper = "premium"
     /\ ~HomeSurface(arg.url.path)
     /\ \/ HomeSurface(arg.current.path)
        \/ arg.current.path \in {PathHomeFor, PathSignIn})
    => ret.exc

\* ---- C16 (SpecPremium)
\* C16: when a run of the authenticated scraper has ended - normally, by
\* an exception out of the constructor, or by an exception during
\* scraping - no browser started by it is still live.
C16_BrowserReleased == pc \in {"done", "crashed"} => driver # "live"

\* ---- C17 (SpecGui)
\* C17: once Stop has been pressed during a bulk run, the run fetches no
\* URL at a loop position that begins after the press; the URL whose
\* iteration was under way at the press may still be fetched.
C17_StopObserved ==
    (mode = "bulk" /\ stop_at > 0) =>
        \A k \in stop_at..Len(log) : log[k] = "exists"

\* ---- C18 (SpecExtract)
\* a text without its leading and trailing blanks
Core(t) ==
    LET nb == {k \in 1..Len(t) : t[k] # " "}
    IN  IF nb = {} THEN <<>>
        ELSE SubSeq(t, CHOOSE k \in nb : \A m \in nb : k <= m,
                       CHOOSE k \in nb : \A m \in nb : m <= k)

\* the page has an element with selector sel among its headings
HasHeading(page, sel) ==
    \E k \in 1..Len(page.headings) : page.headings[k].sel = sel

\* the text of the page's first heading with selector sel
HeadingText(page, sel) ==
    LET at == {k \in 1..Len(page.headings) : page.headings[k].sel = sel}
    IN  Core(page.headings[CHOOSE k \in at : \A m \in at : k <= m].text)

\* the styled date element supplies a date
StyledDateOf(page) ==
    IF page.date_element.present THEN Core(page.date_element.text) ELSE <<>>

\* The publication date the structured data supplies, in short form; empty
\* when the block is absent, is not valid JSON, is not an object, lacks
\* datePublished, or holds no parseable timestamp string there.
StructuredDateOf(page) ==
    LET doc == page.ld.json
    IN  IF /\ page.ld.tag /\ page.ld.string /\ doc.valid
           /\ doc.type = "object" /\ doc.has_key /\ doc.date.type = "string"
        THEN (IF doc.date.text = DateIso
              THEN <<"M","a","r"," ","0","5",","," ","2","0","2","4">>
              ELSE IF doc.date.text = DateDay
              THEN <<"D","e","c"," ","3","1",","," ","2","0","2","3">>
              ELSE <<>>)
        ELSE <<>>

\* the like-count text is a number
NumericLikes(page) ==
    page.like.present /\ Core(page.like.text) \in {<<"7">>}

\* C18: extract_post_data raises on no page, however malformed or partial,
\* and returns title 'Untitled', subtitle '', like_count '0' and date
\* 'Date not found' where the respective part is missing or invalid.
C18_ExtractionTotal ==
    pc = "returned" =>
        /\ ~ret.exc
        /\ (~HasHeading(arg, "h1.post-title") /\ ~HasHeading(arg, "h2"))
              => ret.title = Untitled
        /\ ~arg.subtitle.present => ret.subtitle = <<>>
        /\ ~NumericLikes(arg) => ret.like_count = <<"0">>
        /\ (StyledDateOf(arg) = <<>> /\ StructuredDateOf(arg) = <<>>)
              => ret.date = DateNotFound

\* the structured data, if it is needed and is valid JSON, is an object
\* (or an array or string without "datePublished") whose datePublished, if
\* any, is a string
WellTypedStructuredData(page) ==
    LET doc == page.ld.json
    IN  (StyledDateOf(page) = <<>> /\ page.ld.tag /\ page.ld.string
            /\ doc.valid)
        => /\ doc.type \notin {"number", "null"}
           /\ doc.has_key => (doc.type = "object" /\ doc.date.type = "string")

\* C18 holds for the pages whose structured data is well typed.
ExtractionTotalWhenWellTyped ==
    WellTypedStructuredData(arg) => C18_ExtractionTotal

\* ---- C19 (SpecExtract)
\* C19: when extraction returns, the title is the text of h1.post-title if
\* the page has one, wherever it stands; else the text of the first h2;
\* else 'Untitled'.
C19_TitleOrder ==
    (pc = "returned" /\ ~ret.exc) =>
        ret.title =
            IF HasHeading(arg, "h1.post-title")
            THEN HeadingText(arg, "h1.post-title")
            ELSE IF HasHeading(arg, "h2") THEN HeadingText(arg, "h2")
            ELSE Untitled

\* the primary heading comes before every h2 of the page
PrimaryHeadingFirst(page) ==
    \A a, b \in 1..Len(page.headings) :
        (page.headings[a].sel = "h1.post-title" /\ page.headings[b].sel = "h2")
            => a < b

\* C19 holds for pages whose h1.post-title precedes their h2 elements.
TitleOrderWhenPrimaryFirst ==
    PrimaryHeadingFirst(arg) => C19_TitleOrder

\* ---- C20 (SpecExtract)
\* the date the fallback chain prescribes
ChainDate(page) ==
    IF StyledDateOf(page) # <<>> THEN StyledDateOf(page)
    ELSE IF StructuredDateOf(page) # <<>> THEN StructuredDateOf(page)
    ELSE DateNotFound

\* C20: the extracted date is the styled element's text when it is
\* present and not empty, else the structured-data publication date as
\* abbreviated-month day, year, else 'Date not found'; the structured data
\* plays no part when the styled element supplies the date.
C20_DateChain ==
    pc = "returned" => (~ret.exc /\ ret.date = ChainDate(arg))

\* C20 holds whenever extraction returns.
DateChainWhenExtractionReturns ==
    (pc = "returned" /\ ~ret.exc) => ret.date = ChainDate(arg)

\* the structured data is not read when the styled element has the date
StyledDateShieldsStructuredData ==
    (pc = "returned" /\ StyledDateOf(arg) # <<>>) =>
        (~ret.exc /\ ret.date = StyledDateOf(arg))

\* ---- C21 (SpecLogin)
\* the browser is on the sign-in path
OnSignInPath(u) == UrlPath(u) = PathSignIn

\* the last read of the browser's location that login made
FinalRead ==
    IF arg.url3 # NoUrl THEN arg.url3
    ELSE IF arg.url2 # NoUrl THEN arg.url2
    ELSE arg.url1

LoginEnded == pc = "ended"

\* C21: the login sequence always ends, in exactly one of Authenticated or
\* Failed; it ends Authenticated exactly when the browser is off the
\* sign-in path at the final check, a visible error element
\* notwithstanding; it ends Failed, an exception leaving the constructor,
\* when an error element is visible while on the sign-in path, or when the
\* browser is still on the sign-in path after the grace wait.
C21_LoginOutcome ==
    /\ <>LoginEnded
    /\ [](LoginEnded =>
            /\ ret.session \in {"Authenticated", "Failed"}
            /\ (ret.session = "Authenticated") <=>
                   (FinalRead # NoUrl /\ ~OnSignInPath(FinalRead))
            /\ (OnSignInPath(arg.url1) /\ arg.error1) =>
                   ret.session = "Failed"
            /\ OnSignInPath(arg.url3) => ret.session = "Failed"
            /\ (ret.session = "Failed") <=> raised)

\* the login ended Authenticated after the grace wait although an error
\* element was visible at the first check
C21_Witness ==
    /\ LoginEnded /\ ret.session = "Authenticated"
    /\ arg.error1 /\ arg.url3 # NoUrl

\* ---- C22 (SpecPremium)
\* the login of the provider in use ended Failed
LoginFailed == driver = "live" /\ ret.session = "Failed"

\* the provider in use has fetched a URL in this run
AuthenticatedFetch ==
    driver = "live" /\ \E k \in 1..Len(log) : log[k] # "exists"

\* C22: when the login ends Failed the construction of the authenticated
\* provider raises, that provider fetches no post URL, and the run writes
\* no artifact and leaves the index as it was; every authenticated fetch is
\* preceded by a login that ended Authenticated.
C22_LoginFailureFatal ==
    /\ LoginFailed =>
          /\ pc = "crashed" /\ raised
          /\ log = <<>>
          /\ files = files0 /\ json = json0
    /\ AuthenticatedFetch => ret.session = "Authenticated"

\* a login fails in a run that follows one which saved posts
C22_Witness ==
    LoginFailed /\ runs > 1 /\ files # NoFiles /\ json.exists

\* ---- C23 (SpecFetch)
\* C23: the authenticated get_url_soup returns a page only after one of the
\* content-presence markers was observed on the loaded page; when none
\* appears within the wait, no page is returned for extraction.
C23_MarkerBeforeReturn ==
    (pc = "returned" /\ arg.scraper = "premium" /\ ~ret.exc) => arg.marker

\* The part of C23 that holds: without a marker no page of a home surface
\* is returned.
NoMarkerNoHomePage ==
    (pc = "returned" /\ arg.scraper = "premium" /\ ~ret.exc /\ ~arg.marker)
        => ~IsSubstring(PathHome, UrlText(ret.val.from))
           \/ IsSubstring(<<"p","-">>, UrlText(ret.val.from))

\* ---- C24 (SpecSingle)
\* the URL given to scrape_single_post
SingleUrl == arg.url

\* C24: a scraper constructed with skip_url_fetch, or with a base URL that
\* looks like a post URL, issues no sitemap or feed request and has an
\* empty working set; scrape_single_post fetches at most the one URL it
\* was given, fetches nothing when that URL's Markdown file exists, merges
\* at most one record into the index, and lets a failure for that URL out,
\* the index left as it was.
C24_SinglePostOneUrl ==
    /\ (runs > 0 /\ (ret.skip_url_fetch \/ LooksLikePostUrl(ret.base))) =>
          (ret.requests = {} /\ post_urls = <<>> /\ pc # "crashed")
    /\ (mode = "single" /\ pc = "done") =>
          /\ Len(log) = 1
          /\ (DOMAIN files \ DOMAIN files0)
                 \subseteq {MdPathOf(SingleUrl), HtmlPathOf(SingleUrl)}
          /\ PathExists(files0, MdPathOf(SingleUrl)) =>
                 (log = <<"exists">> /\ files = files0 /\ json = json0)
          /\ IsPrefix(json0.data, json.data)
          /\ Len(json.data) <= Len(json0.data) + 1
          /\ log[1] \in Errors => (raised /\ json = json0)
          /\ log[1] \notin Errors => ~raised

\* a single-post call fails on a URL after an earlier run saved another
C24_Witness ==
    /\ mode = "single" /\ pc = "done" /\ runs > 1
    /\ raised /\ json.exists /\ json = json0
    /\ ret.skip_url_fetch /\ ret.requests = {}

\* ---- C25 (SpecBulk)
\* scrape_posts has been called and has not returned
InScrapePosts == mode = "bulk" /\ pc \in {"ready", "loop", "merge", "gen"}

\* C25: in a bulk run the index file is not written while URLs are being
\* processed; one merge of all accumulated records follows the loop,
\* however it ended; the browsable index page is regenerated after that
\* merge, from the merged index; and this happens in every bulk run, one
\* over no URLs included.
C25_MergeAfterLoop ==
    /\ [][(mode = "bulk" /\ json' # json) => (pc = "merge" /\ pc' = "gen")]_vars
    /\ [][author_html' # author_html => (pc = "gen" /\ pc' = "done")]_vars
    /\ [](pc = "loop" => json = json0)
    /\ []((mode = "bulk" /\ pc \in {"gen", "done"}) =>
             json = save_essays_data_to_json(json0, essays_data))
    /\ []((mode = "bulk" /\ pc = "done") =>
             /\ json.exists
             /\ author_html = generate_html_file(json))
    /\ InScrapePosts ~> (mode = "bulk" /\ pc = "done")

\* a bulk run over no URLs has written the index and the page
C25_Witness ==
    /\ mode = "bulk" /\ pc = "done" /\ post_urls = <<>>
    /\ json = [exists |-> TRUE, data |-> <<>>]
    /\ author_html = [exists |-> TRUE, data |-> <<>>]

\* ---- C26 (SpecGui)
\* scraper threads that have been started and have not ended
ActiveThreads == (IF Running THEN 1 ELSE 0) + extra

\* C26: at most one scraping run is active at a time: a scraper thread is
\* started only when no earlier one is still running, also after Stop was
\* pressed while the earlier thread is still fetching.
C26_OneRunAtATime == ActiveThreads <= 1

\* ---- C27 (Spec)
\* the Markdown files among the saved artifacts
MarkdownFiles == {p \in DOMAIN files : p[1] # HtmlDir}

\* the index has a record of the Markdown file p
Indexed(p) == \E k \in 1..Len(json.data) : json.data[k].file_link = p

\* C27: after any sequence of completed runs, bulk or single, every
\* Markdown file a run created has a record in the site index whose
\* file_link is the file's path, also when rendering or writing the HTML
\* artifact failed after the Markdown file was written.
C27_MarkdownIndexed ==
    pc = "done" => \A p \in MarkdownFiles : Indexed(p)

\* The part of C27 that holds: the Markdown file of every URL whose HTML
\* artifact was written too is in the index.
PairedMarkdownIndexed ==
    pc = "done" =>
        \A p \in MarkdownFiles :
            (\E h \in DOMAIN files :
                 /\ h[1] = HtmlDir
                 /\ \E u \in SiteUrls :
                      /\ p[2] = get_filename_from_url(u, MdExt)
                      /\ h[2] = get_filename_from_url(u, HtmlExt))
            => Indexed(p)

\* ---- C28 (SpecSlugs)
\* the index has separate records for the Markdown files p and q
SeparateRecords(p, q) ==
    \E m, n \in 1..Len(json.data) :
        /\ m # n
        /\ json.data[m].file_link = p
        /\ json.data[n].file_link = q

\* the URLs at positions a and b of the working set have a Markdown/HTML
\* pair and an index record each
SeparateArtifacts(a, b) ==
    /\ MdPathOf(post_urls[a]) # MdPathOf(post_urls[b])
    /\ HtmlPathOf(post_urls[a]) # HtmlPathOf(post_urls[b])
    /\ \A k \in {a, b} :
          /\ PathExists(files, MdPathOf(post_urls[k]))
          /\ PathExists(files, HtmlPathOf(post_urls[k]))
    /\ SeparateRecords(MdPathOf(post_urls[a]), MdPathOf(post_urls[b]))

\* C28: two different URLs of the working set that are reached within the
\* cap, neither saved before and neither failing, get a separate
\* Markdown/HTML pair and a separate index record each, also when they
\* share their last path segment or end in "/".
C28_DistinctArtifacts ==
    (mode = "bulk" /\ pc = "done" /\ NoneSavedAtStart /\ AllSucceed) =>
        \A a, b \in 1..Len(log) :
            post_urls[a] # post_urls[b] => SeparateArtifacts(a, b)

\* The part of C28 that holds: URLs whose text after the last "/" differs
\* get separate artifacts and records.
DistinctNamesDistinctArtifacts ==
    (mode = "bulk" /\ pc = "done" /\ NoneSavedAtStart /\ AllSucceed) =>
        \A a, b \in 1..Len(log) :
            MdPathOf(post_urls[a]) # MdPathOf(post_urls[b]) =>
                SeparateArtifacts(a, b)

\* ---- C8 (SpecDirs)
\* C8: no artifact is overwritten: a file that existed when a run started
\* has the same content at every later point of the run.
C8_NeverOverwritten ==
    \A p \in DOMAIN files0 : PathExists(files, p) /\ files[p] = files0[p]

\* The part of C8 that holds: Markdown files are never overwritten.
MarkdownNeverOverwritten ==
    \A p \in DOMAIN files0 :
        p[1] \in MdDirs => (PathExists(files, p) /\ files[p] = files0[p])

====
